---- MODULE Spec2Model ----
(***************************************************************************)
(* A model of class Particle of src/particle.py: one particle of a         *)
(* particle swarm optimiser, driven by a swarm loop that calls its methods *)
(* in any order.                                                           *)
(*                                                                         *)
(* Numbers.  The particle computes with float64.  A number is modelled as  *)
(* a pair <<n, d>>, d >= 0, in lowest terms: the rational n/d when d > 0,  *)
(* +inf = <<1,0>>, -inf = <<-1,0>> and nan = <<0,0>>.  Arithmetic is exact *)
(* up to the magnitude MaxMag, beyond which a result overflows to +-inf as *)
(* float64 does beyond its largest finite value.  None and an attribute    *)
(* never assigned are the empty tuple.                                     *)
(*                                                                         *)
(* Arrays.  numpy arrays are objects: the attributes position and bestp    *)
(* hold references into heap, so that two attributes naming one array see  *)
(* each other's in-place writes.                                           *)
(***************************************************************************)
EXTENDS Integers, Sequences, FiniteSets, TLC

\* ------------------------------------------------------------------ bounds
\* Dimension of the search space (len(position)).
Dim == 1
\* PositionCalculator is called while iteration < MaxIter.
MaxIter == 2
\* The largest finite magnitude; a larger result is +-inf.
MaxMag == 12

\* ----------------------------------------------------------------- numbers
Abs(x) == IF x < 0 THEN -x ELSE x

Sign(x) == IF x < 0 THEN -1 ELSE IF x > 0 THEN 1 ELSE 0

RECURSIVE GCD(_, _)
GCD(a, b) == IF b = 0 THEN a ELSE GCD(b, a % b)

\* n/d in lowest terms; d = 0 gives an infinity or nan.
Norm(n, d) ==
    IF d = 0 THEN <<Sign(n), 0>>
    ELSE LET g == GCD(Abs(n), d) IN <<n \div g, d \div g>>

\* float64 overflow: a finite value beyond MaxMag becomes an infinity.
Fl(x) ==
    IF x[2] # 0 /\ Abs(x[1]) > MaxMag * x[2] THEN <<Sign(x[1]), 0>> ELSE x

Num(k) == <<k, 1>>

IsNaN(x) == x = <<0, 0>>

FAdd(a, b) == Fl(Norm(a[1] * b[2] + b[1] * a[2], a[2] * b[2]))

FSub(a, b) == Fl(Norm(a[1] * b[2] - b[1] * a[2], a[2] * b[2]))

FMul(a, b) == Fl(Norm(a[1] * b[1], a[2] * b[2]))

\* a / b for b a nonzero finite number.
FDiv(a, b) == Fl(Norm(a[1] * b[2] * Sign(b[1]), a[2] * Abs(b[1])))

\* a < b; every comparison with nan is false.
FLt(a, b) ==
    /\ ~IsNaN(a)
    /\ ~IsNaN(b)
    /\ IF a[2] = 0 /\ b[2] = 0 THEN a[1] < b[1]
       ELSE a[1] * b[2] < b[1] * a[2]

FGt(a, b) == FLt(b, a)

FLe(a, b) == ~IsNaN(a) /\ ~IsNaN(b) /\ ~FLt(b, a)

\* ------------------------------------------------------------- input sets
\* An attribute that was never assigned; an argument that is None.
Unset == <<>>
None == <<>>

Idx == 1..Dim

\* Components of the initial position and of an in-place write.
PosVals == {Num(-5), Num(1), Num(3)}
\* Components of the velocity: the particle's speeds are kept on this grid.
VelVals == {Num(-2), Num(0), Num(1), Num(4)}
\* Components of the swarm's best position.
GlobVals == {Num(0), Num(2)}
\* <<lower, upper>> of one dimension: a range, a single point, a reversed pair.
BoundPairs == {<<Num(0), Num(2)>>, <<Num(1), Num(1)>>, <<Num(2), Num(0)>>}
\* Acceleration constants c1, c2.
CVals == {Num(1), Num(2)}
\* Draws of np.random.random: values in [0, 1).
RandVals == {Num(0), <<1, 2>>}
\* Draws of np.random.normal(0.72, 0.4): the centre and two sigmas either way.
NormalVals == {<<-2, 25>>, <<18, 25>>, <<38, 25>>}
\* Inertia weights handed in by the driver; 0.9 is the default.
WVals == {<<1, 2>>, <<9, 10>>, Num(1)}
\* Velocity caps per dimension, or no cap.
VMaxVals == {Num(1)}
\* Values of the evaluation function.
FitVals == {Num(7), Num(12)}
\* max_iter: absent, or a Python int.
MaxIterVals == {None, Num(0), Num(1), Num(2)}
Schedules == {"costant", "constant", "random", "linearly decreasing",
              "nonlinearly decreasing", "other"}
Recognized == {"constant", "random", "linearly decreasing", "nonlinearly decreasing"}
Schemes == {"random", "absorbing", "reflecting"}
Problems == {"minimum", "maximum", "other"}
Refs == {1, 2}

Vecs(S) == [Idx -> S]

\* ------------------------------------------------------------------- state
VARIABLES
    heap,        \* the arrays: Refs -> vector, <<>> where no array lives
    position,    \* self.position, a reference
    bestp,       \* self.bestp, a reference
    velocity,    \* self.velocity, a vector
    fitness,     \* self.fitness, Unset before the first evaluation
    bestfit,     \* self.bestfit, Unset before BestLocal first stores it
    iteration,   \* self.iteration
    pc,          \* "idle", or "BC" while BoundaryConstraints runs
    frame,       \* the locals of the running BoundaryConstraints
    call,        \* the last call of the driver and its arguments
    outcome,     \* how the last call ended: "ok" or the exception raised
    ret,         \* what the last call returned
    completed,   \* history: how many PositionCalculator calls have returned
    started      \* history: how many PositionCalculator calls have begun

vars == <<heap, position, bestp, velocity, fitness, bestfit, iteration, pc,
          frame, call, outcome, ret, completed, started>>

particle == <<heap, position, bestp, velocity, fitness, bestfit, iteration>>

history == <<completed, started>>

NoFrame == [caller |-> "none"]

\* The value of the array a reference names.
PositionValue == heap[position]

BestpValue == heap[bestp]

\* A reference for a new array.  Only position and bestp hold arrays, and
\* the caller is about to rebind position, so any slot bestp does not name
\* is free.
NewRef == CHOOSE r \in Refs : r # bestp

\* The heap after self.position is rebound to a new array holding v: the
\* array position named is collected unless bestp names it too.
Rebind(v) == [r \in Refs |-> IF r = NewRef THEN v
                             ELSE IF r = bestp THEN heap[r] ELSE <<>>]

\* Particle.__init__: bestp is bound to the very array position is bound to.
Init ==
    /\ \E p \in Vecs(PosVals) : heap = [r \in Refs |-> IF r = 1 THEN p ELSE <<>>]
    /\ position = 1
    /\ bestp = 1
    /\ velocity \in Vecs(VelVals)
    /\ fitness = Unset
    /\ bestfit = Unset
    /\ iteration = 0
    /\ pc = "idle"
    /\ frame = NoFrame
    /\ call = [op |-> "__init__"]
    /\ outcome = "ok"
    /\ ret = Unset
    /\ completed = 0
    /\ started = 0

\* ------------------------------------------------- inertia_coefficient
\* min_w = (c1+c2)*(1/2)-1
MinW(c1, c2) == FSub(FMul(FAdd(c1, c2), <<1, 2>>), Num(1))

\* w = c1*random_1 + c2*random_2
ConstantW(c1, c2, random_1, random_2) == FAdd(FMul(c1, random_1), FMul(c2, random_2))

\* w = ((0.9-min_w)*(max_iter-self.iteration)/max_iter) + min_w
LinearW(min_w, max_iter, it) ==
    FAdd(FDiv(FMul(FSub(<<9, 10>>, min_w), FSub(max_iter, Num(it))), max_iter), min_w)

\* w = 0.975*old_w
NonlinearW(old_w) == FMul(<<39, 40>>, old_w)

\* The floor left out: w is returned as the branch computed it.
ClampOmitted(w, min_w) == w

\* if w < min_w: w = min_w
Clamp(w, min_w) == IF FLt(w, min_w) THEN min_w ELSE w

\* The exception the branches and the membership test raise, "none" when
\* control reaches the comparison of w with min_w.
InertiaRaises(max_iter, old_w, schedule_type) ==
    IF schedule_type = "linearly decreasing" /\ max_iter = None THEN "Exception"
    ELSE IF schedule_type = "linearly decreasing" /\ max_iter = Num(0) THEN "ZeroDivisionError"
    ELSE IF schedule_type = "nonlinearly decreasing" /\ old_w = None THEN "Exception"
    ELSE IF schedule_type \notin {"constant", "random", "linearly decreasing",
                                  "nonlinearly decreasing"} THEN "Exception"
    ELSE "none"

\* The local w when control reaches the comparison: the branch for the
\* constant weight tests for 'costant', whose w never reaches the comparison
\* because the membership test raises first; 'constant' binds no w at all.
InertiaBinds(schedule_type) ==
    schedule_type \in {"costant", "random", "linearly decreasing", "nonlinearly decreasing"}

\* How a call ends and the w it returns; normal is the draw of
\* np.random.normal, it is self.iteration.
inertia_coefficient(it, c1, c2, random_1, random_2, max_iter, old_w, schedule_type, normal) ==
    LET min_w == MinW(c1, c2)
        exc == InertiaRaises(max_iter, old_w, schedule_type)
        w == CASE schedule_type = "costant" -> ConstantW(c1, c2, random_1, random_2)
               [] schedule_type = "random" -> normal
               [] schedule_type = "linearly decreasing" -> LinearW(min_w, max_iter, it)
               [] schedule_type = "nonlinearly decreasing" -> NonlinearW(old_w)
    IN  IF exc # "none" THEN [outcome |-> exc, w |-> Unset]
        ELSE IF ~InertiaBinds(schedule_type)
             THEN [outcome |-> "UnboundLocalError", w |-> Unset]
        ELSE [outcome |-> "ok", w |-> Clamp(w, min_w)]

\* The driver calls inertia_coefficient: nothing of the particle changes.
InertiaCall(c1, c2, random_1, random_2, max_iter, old_w, schedule_type, normal) ==
    LET r == inertia_coefficient(iteration, c1, c2, random_1, random_2, max_iter,
                                 old_w, schedule_type, normal)
    IN  /\ pc = "idle"
        /\ call' = [op |-> "inertia_coefficient", c1 |-> c1, c2 |-> c2,
                    random_1 |-> random_1, random_2 |-> random_2,
                    max_iter |-> max_iter, old_w |-> old_w,
                    schedule_type |-> schedule_type, normal |-> normal]
        /\ outcome' = r.outcome
        /\ ret' = r.w
        /\ UNCHANGED <<particle, pc, frame, history>>

\* ---------------------------------------------------- FitnessCalculator
\* self.fitness = accuracy(position); f is what accuracy returns.
FitnessCalculator(f) ==
    /\ pc = "idle"
    /\ call' = [op |-> "FitnessCalculator"]
    /\ outcome' = "ok"
    /\ ret' = <<"self">>
    /\ fitness' = f
    /\ UNCHANGED <<heap, position, bestp, velocity, bestfit, iteration, pc, frame,
                   history>>

\* accuracy(position) raises: the exception passes through, nothing is stored.
FitnessCalculatorRaises ==
    /\ pc = "idle"
    /\ call' = [op |-> "FitnessCalculator"]
    /\ outcome' = "EvaluatorError"
    /\ ret' = Unset
    /\ UNCHANGED <<particle, pc, frame, history>>

\* ------------------------------------------------------------ BestLocal
Better(problem, fit, bf) ==
    IF problem = "minimum" THEN FLt(fit, bf) ELSE FGt(fit, bf)

\* BestLocal on a particle with the given attributes: how it ends, and the
\* bestfit and bestp it leaves.  Reading an attribute never assigned raises
\* AttributeError.
BestLocal(it, fit, bf, pos, bp, problem) ==
    IF it = 0 /\ fit = Unset
    THEN [outcome |-> "AttributeError", bestfit |-> bf, bestp |-> bp, ret |-> Unset]
    ELSE LET bf0 == IF it = 0 THEN fit ELSE bf
         IN  IF problem \in {"minimum", "maximum"}
             THEN IF fit = Unset \/ bf0 = Unset
                  THEN [outcome |-> "AttributeError", bestfit |-> bf0, bestp |-> bp,
                        ret |-> Unset]
                  ELSE IF Better(problem, fit, bf0)
                  THEN [outcome |-> "ok", bestfit |-> fit, bestp |-> pos, ret |-> <<"self">>]
                  ELSE [outcome |-> "ok", bestfit |-> bf0, bestp |-> bp, ret |-> <<"self">>]
             ELSE [outcome |-> "ok", bestfit |-> bf0, bestp |-> bp,
                   ret |-> <<"Error! problem must be: 'minimum' or 'maximum'">>]

\* The driver calls BestLocal.
BestLocalCall(problem) ==
    LET r == BestLocal(iteration, fitness, bestfit, position, bestp, problem)
    IN  /\ pc = "idle"
        /\ call' = [op |-> "BestLocal", problem |-> problem]
        /\ outcome' = r.outcome
        /\ ret' = r.ret
        /\ bestfit' = r.bestfit
        /\ bestp' = r.bestp
        /\ UNCHANGED <<heap, position, velocity, fitness, iteration, pc, frame,
                       history>>

\* --------------------------------------------------- VelocityCalculator
\* velocity = w*self.velocity + c1*random_1*(self.bestp - self.position)
\*            + c2*random_2*(best_glob_pos - self.position), elementwise
RawVelocity(c1, c2, best_glob_pos, w, random_1, random_2) ==
    [i \in Idx |->
        FAdd(FAdd(FMul(w, velocity[i]),
                  FMul(FMul(c1, random_1[i]), FSub(BestpValue[i], PositionValue[i]))),
             FMul(FMul(c2, random_2[i]), FSub(best_glob_pos[i], PositionValue[i])))]

\* With v_max given, a component above its cap is replaced by the cap.
ClampVelocity(v, v_max) ==
    IF v_max # None
    THEN [i \in Idx |-> IF FGt(v[i], v_max[i]) THEN v_max[i] ELSE v[i]]
    ELSE v

\* The velocity is stored first; then the inertia weight is computed from
\* the schedule with old_w = w and no max_iter, and its exception, if any,
\* leaves the call.  Calls whose velocity leaves VelVals are not enumerated.
VelocityCalculator(c1, c2, best_glob_pos, w_schedule, w, v_max, random_1, random_2, normal) ==
    LET v == ClampVelocity(RawVelocity(c1, c2, best_glob_pos, w, random_1, random_2), v_max)
        r == inertia_coefficient(iteration, c1, c2, random_1, random_2, None, w,
                                 w_schedule, normal)
    IN  /\ pc = "idle"
        /\ v \in Vecs(VelVals)
        /\ velocity' = v
        /\ call' = [op |-> "VelocityCalculator", w_schedule |-> w_schedule]
        /\ outcome' = r.outcome
        /\ ret' = IF r.outcome = "ok" THEN <<"self">> ELSE Unset
        /\ UNCHANGED <<heap, position, bestp, fitness, bestfit, iteration, pc, frame,
                       history>>

\* -------------------------------------------------- BoundaryConstraints
\* The loop test with its first disjunct left out.
OutsideAboveOnly(dim, lower, upper) == FGt(dim, upper)

\* (dim < lower) or (dim > upper)
Outside(dim, lower, upper) == FLt(dim, lower) \/ FGt(dim, upper)

\* dim = lower below the boundary, dim = upper above it
Absorb(dim, lower, upper) == IF FLt(dim, lower) THEN lower ELSE upper

\* dim = (lower - dim) + lower below, dim = upper - (dim-upper) above
Reflect(dim, lower, upper) ==
    IF FLt(dim, lower) THEN FAdd(FSub(lower, dim), lower)
    ELSE FSub(upper, FSub(dim, upper))

\* What np.random.uniform(lower, upper) can return: a value of [lower, upper),
\* of (upper, lower] when the pair is reversed, lower when the two are equal.
UniformVals(lower, upper) ==
    {x \in {Num(0), Num(1), <<3, 2>>} :
        \/ FLe(lower, x) /\ FLt(x, upper)
        \/ FLt(upper, x) /\ FLe(x, lower)
        \/ x = lower /\ lower = upper}

\* The values one pass through the body of the while loop can leave in dim.
Corrected(scheme, dim, lower, upper) ==
    CASE scheme = "random" -> UniformVals(lower, upper)
      [] scheme = "absorbing" -> {Absorb(dim, lower, upper)}
      [] scheme = "reflecting" -> {Reflect(dim, lower, upper)}

\* The locals of BoundaryConstraints on entry; k is the place of dim in the
\* zip, corrected says whether the while body has run.
Enter(caller, pos, lower_bound, upper_bound, scheme, problem) ==
    [caller |-> caller, lower_bound |-> lower_bound, upper_bound |-> upper_bound,
     scheme |-> scheme, problem |-> problem, k |-> 1, dim |-> pos[1],
     new_position |-> <<>>, corrected |-> FALSE]

\* The driver calls BoundaryConstraints.
BoundaryConstraints(lower_bound, upper_bound, scheme) ==
    /\ pc = "idle"
    /\ pc' = "BC"
    /\ frame' = Enter("driver", PositionValue, lower_bound, upper_bound, scheme, None)
    /\ call' = [op |-> "BoundaryConstraints", corrected |-> FALSE]
    /\ outcome' = "running"
    /\ ret' = Unset
    /\ UNCHANGED <<particle, history>>

\* One pass through the body of the while loop.
BCCorrect ==
    /\ pc = "BC"
    /\ frame.k <= Dim
    /\ Outside(frame.dim, frame.lower_bound[frame.k], frame.upper_bound[frame.k])
    /\ \E d \in Corrected(frame.scheme, frame.dim, frame.lower_bound[frame.k],
                          frame.upper_bound[frame.k]) :
           frame' = [frame EXCEPT !.dim = d, !.corrected = TRUE]
    /\ UNCHANGED <<particle, pc, call, outcome, ret, history>>

\* The while loop is left: new_position.append(dim), and the for loop goes on.
BCAppend ==
    /\ pc = "BC"
    /\ frame.k <= Dim
    /\ ~Outside(frame.dim, frame.lower_bound[frame.k], frame.upper_bound[frame.k])
    /\ frame' = [frame EXCEPT !.new_position = Append(@, frame.dim),
                              !.k = @ + 1,
                              !.dim = IF frame.k < Dim THEN PositionValue[frame.k + 1]
                                      ELSE None]
    /\ UNCHANGED <<particle, pc, call, outcome, ret, history>>

\* self.position = np.array(new_position), and the call of the driver returns.
BCReturn ==
    /\ pc = "BC"
    /\ frame.k > Dim
    /\ frame.caller = "driver"
    /\ heap' = Rebind(frame.new_position)
    /\ position' = NewRef
    /\ pc' = "idle"
    /\ frame' = NoFrame
    /\ call' = [call EXCEPT !.corrected = frame.corrected]
    /\ outcome' = "ok"
    /\ ret' = None
    /\ UNCHANGED <<bestp, velocity, fitness, bestfit, iteration, history>>

\* --------------------------------------------------- PositionCalculator
\* The counter left as it was.
NotIncremented(it) == it

\* self.iteration += 1
Incremented(it) == it + 1

\* self.iteration += 1; self.position = self.position + self.velocity; then
\* BoundaryConstraints runs with its default scheme.
PositionCalculator(lower_bound, upper_bound, problem_type) ==
    LET moved == [i \in Idx |-> FAdd(PositionValue[i], velocity[i])]
    IN  /\ pc = "idle"
        /\ iteration < MaxIter
        /\ iteration' = Incremented(iteration)
        /\ heap' = Rebind(moved)
        /\ position' = NewRef
        /\ pc' = "BC"
        /\ frame' = Enter("PositionCalculator", moved, lower_bound, upper_bound,
                          "reflecting", problem_type)
        /\ call' = [op |-> "PositionCalculator", corrected |-> FALSE,
                    problem_type |-> problem_type]
        /\ outcome' = "running"
        /\ ret' = Unset
        /\ started' = started + 1
        /\ UNCHANGED <<bestp, velocity, fitness, bestfit, completed>>

\* BoundaryConstraints returns into PositionCalculator, which evaluates the
\* fitness (f) at the corrected position, calls BestLocal and returns self
\* unless BestLocal raises.
PositionCalculatorFinish(f) ==
    LET r == BestLocal(iteration, f, bestfit, NewRef, bestp, frame.problem)
    IN  /\ pc = "BC"
        /\ frame.k > Dim
        /\ frame.caller = "PositionCalculator"
        /\ heap' = Rebind(frame.new_position)
        /\ position' = NewRef
        /\ fitness' = f
        /\ bestfit' = r.bestfit
        /\ bestp' = r.bestp
        /\ pc' = "idle"
        /\ frame' = NoFrame
        /\ call' = [call EXCEPT !.corrected = frame.corrected]
        /\ outcome' = r.outcome
        /\ ret' = IF r.outcome = "ok" THEN <<"self">> ELSE Unset
        /\ completed' = IF r.outcome = "ok" THEN completed + 1 ELSE completed
        /\ UNCHANGED <<velocity, iteration, started>>

\* The evaluation function raises inside PositionCalculator: the exception
\* passes through with the counter raised and the position moved.
PositionCalculatorEvaluatorRaises ==
    /\ pc = "BC"
    /\ frame.k > Dim
    /\ frame.caller = "PositionCalculator"
    /\ heap' = Rebind(frame.new_position)
    /\ position' = NewRef
    /\ pc' = "idle"
    /\ frame' = NoFrame
    /\ call' = [call EXCEPT !.corrected = frame.corrected]
    /\ outcome' = "EvaluatorError"
    /\ ret' = Unset
    /\ UNCHANGED <<bestp, velocity, fitness, bestfit, iteration, history>>

\* ------------------------------------------------------------ the driver
\* The driver writes component i of the array it handed to the constructor
\* or reads back as particle.position: an in-place write, no rebinding.
SetItem(i, x) ==
    /\ pc = "idle"
    /\ heap' = [heap EXCEPT ![position][i] = x]
    /\ call' = [op |-> "setitem"]
    /\ outcome' = "ok"
    /\ ret' = None
    /\ UNCHANGED <<position, bestp, velocity, fitness, bestfit, iteration, pc, frame,
                   history>>

\* <<lower, upper>> pairs, one per dimension.
BoundVecs == [Idx -> BoundPairs]

LowerOf(b) == [i \in Idx |-> b[i][1]]

UpperOf(b) == [i \in Idx |-> b[i][2]]

\* The life of a particle between velocity updates: the driver evaluates,
\* tracks the best, corrects and moves the particle and writes its position,
\* in any order.  The velocity is any of VelVals from construction on;
\* VelocityCalculator and inertia_coefficient, which leave everything else
\* alone, have their own specifications SpecV and SpecW below.
Next ==
    \/ \E f \in FitVals : FitnessCalculator(f)
    \/ FitnessCalculatorRaises
    \/ \E problem \in Problems : BestLocalCall(problem)
    \/ \E b \in BoundVecs, scheme \in Schemes :
           BoundaryConstraints(LowerOf(b), UpperOf(b), scheme)
    \/ BCCorrect
    \/ BCAppend
    \/ BCReturn
    \/ \E b \in BoundVecs, problem \in Problems :
           PositionCalculator(LowerOf(b), UpperOf(b), problem)
    \/ \E f \in FitVals : PositionCalculatorFinish(f)
    \/ PositionCalculatorEvaluatorRaises
    \/ \E i \in Idx, x \in PosVals : SetItem(i, x)

Spec == Init /\ [][Next]_vars

\* The methods of a generation step alone: evaluation, personal best and
\* PositionCalculator with the BoundaryConstraints it runs.
NextGen ==
    \/ \E f \in FitVals : FitnessCalculator(f)
    \/ FitnessCalculatorRaises
    \/ \E problem \in Problems : BestLocalCall(problem)
    \/ \E b \in BoundVecs, problem \in Problems :
           PositionCalculator(LowerOf(b), UpperOf(b), problem)
    \/ BCCorrect
    \/ BCAppend
    \/ \E f \in FitVals : PositionCalculatorFinish(f)
    \/ PositionCalculatorEvaluatorRaises

SpecGen == Init /\ [][NextGen]_vars

\* The driver's calls of BoundaryConstraints alone, on a particle as
\* constructed, between in-place writes of its position.
NextBC ==
    \/ \E b \in BoundVecs, scheme \in Schemes :
           BoundaryConstraints(LowerOf(b), UpperOf(b), scheme)
    \/ BCCorrect
    \/ BCAppend
    \/ BCReturn
    \/ \E i \in Idx, x \in PosVals : SetItem(i, x)

\* A method that was called runs on: the interpreter does not stop inside
\* BoundaryConstraints.  The driver need not call anything.
SpecBC ==
    /\ Init
    /\ [][NextBC]_vars
    /\ WF_vars(BCCorrect)
    /\ WF_vars(BCAppend)
    /\ WF_vars(BCReturn)

\* A particle after k calls of PositionCalculator that returned: built with
\* position p and velocity v, moved to q, its fitness evaluated but BestLocal
\* never reached with a recognised problem type.  k = 0 is the particle as
\* constructed, bestp and position naming one array.
Advanced(k, p, q, v) ==
    /\ heap = IF k = 0 THEN [r \in Refs |-> IF r = 1 THEN p ELSE <<>>]
              ELSE [r \in Refs |-> IF r = 1 THEN p ELSE q]
    /\ position = IF k = 0 THEN 1 ELSE 2
    /\ bestp = 1
    /\ velocity = v
    /\ fitness = IF k = 0 THEN Unset ELSE Num(7)
    /\ bestfit = Unset
    /\ iteration = k
    /\ completed = k
    /\ started = k
    /\ pc = "idle"
    /\ frame = NoFrame
    /\ call = IF k = 0 THEN [op |-> "__init__"]
              ELSE [op |-> "PositionCalculator", corrected |-> FALSE,
                    problem_type |-> "other"]
    /\ outcome = "ok"
    /\ ret = IF k = 0 THEN Unset ELSE <<"self">>

\* inertia_coefficient reads self.iteration and its arguments only: it is
\* applied to particles at rest at every iteration count.
InitW ==
    \E k \in 0..MaxIter :
        Advanced(k, [i \in Idx |-> Num(1)], [i \in Idx |-> Num(1)], [i \in Idx |-> Num(0)])

\* The calls of inertia_coefficient: an argument the schedule's branch does
\* not read is left at its default (None), or at 1/2 for a random number.
NextW ==
    \E c1 \in CVals, c2 \in CVals :
        \/ \E r1 \in RandVals, r2 \in RandVals, s \in {"costant", "constant", "other"} :
               InertiaCall(c1, c2, r1, r2, None, None, s, <<18, 25>>)
        \/ \E n \in NormalVals :
               InertiaCall(c1, c2, <<1, 2>>, <<1, 2>>, None, None, "random", n)
        \/ \E max_iter \in MaxIterVals :
               InertiaCall(c1, c2, <<1, 2>>, <<1, 2>>, max_iter, None,
                           "linearly decreasing", <<18, 25>>)
        \/ \E old_w \in {None} \cup WVals :
               InertiaCall(c1, c2, <<1, 2>>, <<1, 2>>, None, old_w,
                           "nonlinearly decreasing", <<18, 25>>)

SpecW == InitW /\ [][NextW]_vars

\* VelocityCalculator reads position, bestp and velocity: it is applied, any
\* number of times, to particles as constructed and to particles that have
\* moved away from their best position.
InitV ==
    \/ \E p \in Vecs(PosVals), v \in Vecs(VelVals) : Advanced(0, p, p, v)
    \/ \E q \in Vecs({Num(1), Num(2)}), v \in Vecs(VelVals) :
           Advanced(1, [i \in Idx |-> Num(1)], q, v)

NextV ==
    \E c1 \in CVals, c2 \in CVals, g \in Vecs(GlobVals), s \in Schedules,
       w \in WVals, v_max \in {None} \cup Vecs(VMaxVals),
       r1 \in Vecs(RandVals), r2 \in Vecs(RandVals), n \in NormalVals :
        VelocityCalculator(c1, c2, g, s, w, v_max, r1, r2, n)

SpecV == InitV /\ [][NextV]_vars

\* ================================================================ claims

\* ---- C1 (SpecBC)
InBounds(v, lower_bound, upper_bound) ==
    \A i \in Idx : FLe(lower_bound[i], v[i]) /\ FLe(v[i], upper_bound[i])

\* C1: whenever BoundaryConstraints returns, every component of the position
\* it leaves lies in [lower[i], upper[i]], whatever the scheme, the starting
\* position and the bounds it was called with.
C1_InBoundsOnReturn ==
    [][(pc = "BC" /\ pc' = "idle")
        => InBounds(heap'[position'], frame.lower_bound, frame.upper_bound)]_vars

\* BoundaryConstraints has returned after correcting at least one component.
C1_Witness ==
    /\ pc = "idle"
    /\ call.op = "BoundaryConstraints"
    /\ call.corrected
    /\ outcome = "ok"

\* ---- C2 (SpecBC)
ValidBounds == \A i \in Idx : FLe(frame.lower_bound[i], frame.upper_bound[i])

\* C2: with lower[i] <= upper[i] in every dimension (lower[i] = upper[i]
\* included), a running BoundaryConstraints eventually returns, whatever the
\* scheme and the starting position.
C2_Terminates == (pc = "BC" /\ ValidBounds) ~> (pc = "idle")

\* ---- C3 (SpecBC)
ReversedBounds == \E i \in Idx : FLt(frame.upper_bound[i], frame.lower_bound[i])

\* C3: BoundaryConstraints called with lower[i] > upper[i] for some i ends in
\* a ConfigurationError instead of looping forever.
C3_ReversedBoundsRaise ==
    (pc = "BC" /\ ReversedBounds) ~> (pc = "idle" /\ outcome = "ConfigurationError")

\* ---- C4 (SpecW)
\* wMin = (c1+c2)/2 - 1
WMin(c1, c2) == FSub(FDiv(FAdd(c1, c2), Num(2)), Num(1))

\* C4: a value inertia_coefficient returns is never below (c1+c2)/2 - 1,
\* whatever the schedule, the arguments and the iteration count.
C4_NeverBelowWMin ==
    (call.op = "inertia_coefficient" /\ outcome = "ok")
        => FLe(WMin(call.c1, call.c2), ret)

\* inertia_coefficient has returned the floor itself: the linearly decreasing
\* schedule past max_iter, whose raw value lies below it.
C4_Witness ==
    /\ call.op = "inertia_coefficient"
    /\ outcome = "ok"
    /\ call.schedule_type = "linearly decreasing"
    /\ FLt(call.max_iter, Num(iteration))
    /\ FLt(LinearW(WMin(call.c1, call.c2), call.max_iter, iteration),
           WMin(call.c1, call.c2))
    /\ ret = WMin(call.c1, call.c2)

\* ---- C5 (SpecW)
FMax(a, b) == IF FLt(a, b) THEN b ELSE a

\* C5: inertia_coefficient called with the schedule 'constant' returns
\* max(c1*r1 + c2*r2, wMin).
C5_ConstantSchedule ==
    (call.op = "inertia_coefficient" /\ call.schedule_type = "constant")
        => /\ outcome = "ok"
           /\ ret = FMax(FAdd(FMul(call.c1, call.random_1), FMul(call.c2, call.random_2)),
                         WMin(call.c1, call.c2))

\* ---- C6 (SpecGen)
\* C6: between calls, iteration equals the number of PositionCalculator calls
\* that have completed.
C6_IterationCountsCompleted == pc = "idle" => iteration = completed

\* C6 as amended: iteration equals the number of PositionCalculator calls
\* that have begun, whether they returned, raised or are still running; no
\* more of them have completed than have begun.
C6_IterationCountsStarted == iteration = started /\ completed <= started

\* A PositionCalculator call has ended in an exception: it is counted though
\* it did not complete.
C6_Witness ==
    /\ pc = "idle"
    /\ call.op = "PositionCalculator"
    /\ outcome = "AttributeError"
    /\ iteration = 1
    /\ completed = 0

\* ---- C7 (Spec)
\* C7: BestLocal('minimum') on a particle whose bestfit is set leaves bestfit
\* at min(bestfit before, fitness), and puts the current position in bestp
\* exactly when fitness < bestfit before, leaving bestp alone otherwise.
C7_MinimumKeepsBest ==
    [][(pc = "idle" /\ bestfit # Unset /\ call'.op = "BestLocal"
        /\ call'.problem = "minimum")
        => /\ outcome' = "ok"
           /\ bestfit' = IF FLt(fitness, bestfit) THEN fitness ELSE bestfit
           /\ BestpValue' = IF FLt(fitness, bestfit) THEN PositionValue
                            ELSE BestpValue]_vars

\* ---- C8 (Spec)
\* C8: an in-place write of the position vector leaves the values stored as
\* bestp unchanged.
C8_BestpNotAliased ==
    [][(pc = "idle" /\ call'.op = "setitem") => BestpValue' = BestpValue]_vars

\* ---- C9 (Spec)
\* C9: when the first personal-best update happens inside the first
\* PositionCalculator call (bestfit never set before, a recognised problem
\* type, an evaluator that returns), the call completes with bestfit set to
\* the fitness evaluated at the corrected position.
C9_FirstAdvanceSetsBestfit ==
    [][(/\ pc = "BC"
        /\ pc' = "idle"
        /\ frame.caller = "PositionCalculator"
        /\ frame.problem \in {"minimum", "maximum"}
        /\ iteration = 1
        /\ bestfit = Unset
        /\ outcome' # "EvaluatorError")
        => /\ outcome' = "ok"
           /\ bestfit' # Unset
           /\ bestfit' = fitness']_vars

\* ---- C10 (SpecV)
\* C10: VelocityCalculator called with any of the four recognised schedules
\* returns the particle without an error.
C10_RecognizedSchedulesReturn ==
    (call.op = "VelocityCalculator" /\ call.w_schedule \in Recognized)
        => outcome = "ok"

====
